---- MODULE Spec2Model ----
(***************************************************************************)
(* Model of the reward pallet of src/src/lib.rs: the two storage values    *)
(* RewardPool and TotalDistributed, the genesis build, the on_initialize   *)
(* hook and the two extrinsics top_up_pool and claim_reward.               *)
(*                                                                         *)
(* BalanceOf<T> is an unsigned integer of BalanceBits bits.  The plain     *)
(* `+` and `-` of lines 178, 183, 249 and 254 are Rust's built-in integer  *)
(* operators: on overflow they panic in a build with overflow checks and   *)
(* wrap modulo 2^BalanceBits in a build without them.  Both outcomes are   *)
(* kept.  A panic ends the run at the statement that raised it, with the   *)
(* storage writes made before it in place.                                 *)
(***************************************************************************)
EXTENDS Integers, Sequences, FiniteSets, TLC

\* ------------------------------------------------------------------ bounds
BalanceBits == 2
MaxOps == 3

\* ------------------------------------------------------------------ types
RECURSIVE Pow2(_)
Pow2(n) == IF n = 0 THEN 1 ELSE 2 * Pow2(n - 1)

Modulus == Pow2(BalanceBits)
MaxBalance == Modulus - 1
BalanceOf == 0 .. MaxBalance

\* the runtime configurations of Config::RewardPerBlock that are explored
RewardPerBlockChoices == {0, 1, MaxBalance}

AccountId == {"Alice", "Bob"}
NoAccount == "-"
\* frame_system origins: Root, or Signed(account) written as the account
Root == "Root"
RuntimeOrigin == {Root} \cup AccountId
\* the values frame_system::Pallet::block_author() can return
NoAuthor == "None"
OptionAccountId == {NoAuthor} \cup AccountId

VARIABLES
    RewardPool,        \* storage value RewardPool
    TotalDistributed,  \* storage value TotalDistributed
    RewardPerBlock,    \* Config::RewardPerBlock, fixed by the runtime
    initial_reward_pool, \* GenesisConfig::initial_reward_pool
    free_balance,      \* what the Currency has deposited into each account
    toppedUp,          \* sum of the amounts of the successful top-ups
    call,              \* the last handler run and its arguments
    result,            \* how the last handler ended
    weight,            \* the Weight on_initialize returned
    events,            \* the events the last handler deposited
    old,               \* the storage and balances the last handler started from
    ops,               \* number of handlers run so far
    skipped,           \* some on_initialize so far returned for an insufficient pool
    pc,                \* the statement the handler in flight is at, "idle" between handlers
    pool_read,         \* the local `pool_before` / `pool` of the handler in flight
    half_written       \* RewardPool is written and the matching TotalDistributed is not yet

\* the variables of the statement-by-statement execution
stepVars == <<pc, pool_read, half_written>>

vars == <<RewardPool, TotalDistributed, RewardPerBlock, initial_reward_pool,
          free_balance, toppedUp, call, result, weight, events, old, ops,
          skipped, pc, pool_read, half_written>>

\* ------------------------------------------------------------------ events
RewardPoolIncreased(amount, new_pool) ==
    [event |-> "RewardPoolIncreased", who |-> NoAccount, amount |-> amount, total |-> new_pool]

RewardClaimed(who, amount) ==
    [event |-> "RewardClaimed", who |-> who, amount |-> amount, total |-> 0]

BlockRewardDistributed(block_author, amount) ==
    [event |-> "BlockRewardDistributed", who |-> block_author, amount |-> amount, total |-> 0]

\* ------------------------------------------------------------------ helpers
NoneValue == [some |-> FALSE, val |-> 0]
Some(v) == [some |-> TRUE, val |-> v]

\* checked_add with the bound off by one: a sum of exactly MaxBalance is refused
checked_add_strict(a, b) == IF a + b < MaxBalance THEN Some(a + b) ELSE NoneValue

\* checked_add replaced by wrapping_add: never None
checked_add_wrapping(a, b) == Some((a + b) % Modulus)

\* CheckedAdd::checked_add: None when the true sum does not fit
checked_add(a, b) == IF a + b <= MaxBalance THEN Some(a + b) ELSE NoneValue

\* the outcomes of a Rust panic or of a value
Panicked == [panic |-> TRUE, val |-> 0]
Value(v) == [panic |-> FALSE, val |-> v]

\* the built-in `a + b`: the value, or on overflow a panic or the wrapped sum
UncheckedAdd(a, b) ==
    IF a + b <= MaxBalance THEN {Value(a + b)}
    ELSE {Panicked, Value((a + b) % Modulus)}

\* the subtraction left out: the minuend is stored back
UncheckedSub_dropped(a, b) == {Value(a)}

\* the built-in `a - b`: the value, or on underflow a panic or the wrapped difference
UncheckedSub(a, b) ==
    IF a >= b THEN {Value(a - b)}
    ELSE {Panicked, Value((a + Modulus - b) % Modulus)}

\* the zero check left out
is_zero_never(x) == FALSE

\* Zero::is_zero
is_zero(x) == x = 0

\* the signed-origin check left out
ensure_signed_any(origin) == TRUE

\* ensure_signed: Ok(account) for a signed origin, BadOrigin otherwise
ensure_signed(origin) == origin \in AccountId

\* the origins T::RewardManagerOrigin is configured to accept (EnsureRoot)
RewardManagerOrigin == {Root}

\* the origin check left out
try_origin_always(origin) == TRUE

\* T::RewardManagerOrigin::try_origin(origin).is_ok()
try_origin(origin) == origin \in RewardManagerOrigin

\* the funds check off by one
HasFunds_off_by_one(pool_before, amount) == pool_before + 1 >= amount

\* the claim's funds check, `pool_before >= amount`
HasFunds(pool_before, amount) == pool_before >= amount

\* the Weight of the hook's two early returns, `return 0`
EarlyReturnWeight == 0

\* the hook returning the early Weight at its end as well
HookWeight_as_early == EarlyReturnWeight

\* the Weight at the end of the hook, `10_000`
HookWeight == 10000

\* the hook's funds check off by one
PoolTooSmall_off_by_one(pool, reward_per_block) == pool <= reward_per_block

\* the hook's funds check, `pool < reward_per_block`
PoolTooSmall(pool, reward_per_block) == pool < reward_per_block

\* T::Currency::deposit_creating(who, amount)
deposit_creating(who, amount) ==
    [free_balance EXCEPT ![who] = @ + amount]

RECURSIVE SumOver(_, _)
SumOver(f, S) ==
    IF S = {} THEN 0
    ELSE LET a == CHOOSE x \in S : TRUE IN f[a] + SumOver(f, S \ {a})

\* everything the Currency has deposited, over all accounts
TotalIssued == SumOver(free_balance, AccountId)

Snapshot == [RewardPool |-> RewardPool, TotalDistributed |-> TotalDistributed,
             free_balance |-> free_balance]

Running == result # "Panic" /\ ops < MaxOps

\* ------------------------------------------------------------------ genesis
\* GenesisBuild::build
Init ==
    /\ initial_reward_pool \in BalanceOf
    /\ RewardPerBlock \in RewardPerBlockChoices
    /\ RewardPool = initial_reward_pool
    /\ TotalDistributed = 0
    /\ free_balance = [a \in AccountId |-> 0]
    /\ toppedUp = 0
    /\ call = [op |-> "build", origin |-> NoAccount, amount |-> 0, author |-> NoAuthor]
    /\ result = "Ok"
    /\ weight = 0
    /\ events = <<>>
    /\ old = [RewardPool |-> initial_reward_pool, TotalDistributed |-> 0,
              free_balance |-> [a \in AccountId |-> 0]]
    /\ ops = 0
    /\ skipped = FALSE
    /\ pc = "idle"
    /\ pool_read = 0
    /\ half_written = FALSE

\* ------------------------------------------------------------------ handlers
\* a handler that returns before its first write
Returns(r, w) ==
    /\ result' = r
    /\ weight' = w
    /\ events' = <<>>
    /\ UNCHANGED <<RewardPool, TotalDistributed, free_balance, toppedUp>>

\* Pallet::top_up_pool
top_up_pool(origin, amount) ==
    /\ Running
    /\ call' = [op |-> "top_up_pool", origin |-> origin, amount |-> amount, author |-> NoAuthor]
    /\ old' = Snapshot
    /\ ops' = ops + 1
    /\ UNCHANGED <<RewardPerBlock, initial_reward_pool, skipped>>
    /\ IF ~try_origin(origin) THEN Returns("BadOriginForTopUp", 0)
       ELSE LET pool_before == RewardPool
                new_pool == checked_add(pool_before, amount)
            IN  IF ~new_pool.some THEN Returns("ArithmeticError::Overflow", 0)
                ELSE /\ RewardPool' = new_pool.val
                     /\ events' = <<RewardPoolIncreased(amount, new_pool.val)>>
                     /\ toppedUp' = toppedUp + amount
                     /\ result' = "Ok"
                     /\ weight' = 0
                     /\ UNCHANGED <<TotalDistributed, free_balance>>

\* Pallet::claim_reward
claim_reward(origin, amount) ==
    /\ Running
    /\ call' = [op |-> "claim_reward", origin |-> origin, amount |-> amount, author |-> NoAuthor]
    /\ old' = Snapshot
    /\ ops' = ops + 1
    /\ UNCHANGED <<RewardPerBlock, initial_reward_pool, skipped>>
    /\ IF ~ensure_signed(origin) THEN Returns("BadOrigin", 0)
       ELSE IF is_zero(amount) THEN Returns("InvalidClaimAmount", 0)
       ELSE LET pool_before == RewardPool IN
            IF ~HasFunds(pool_before, amount) THEN Returns("InsufficientRewardPool", 0)
            ELSE \E new_pool \in UncheckedSub(pool_before, amount) :
                   IF new_pool.panic THEN Returns("Panic", 0)
                   ELSE \E new_total_dist \in UncheckedAdd(TotalDistributed, amount) :
                          IF new_total_dist.panic
                          THEN /\ RewardPool' = new_pool.val
                               /\ result' = "Panic"
                               /\ weight' = 0
                               /\ events' = <<>>
                               /\ UNCHANGED <<TotalDistributed, free_balance, toppedUp>>
                          ELSE /\ RewardPool' = new_pool.val
                               /\ TotalDistributed' = new_total_dist.val
                               /\ free_balance' = deposit_creating(origin, amount)
                               /\ events' = <<RewardClaimed(origin, amount)>>
                               /\ result' = "Ok"
                               /\ weight' = 0
                               /\ UNCHANGED toppedUp

\* Hooks::on_initialize
on_initialize(author) ==
    /\ Running
    /\ call' = [op |-> "on_initialize", origin |-> NoAccount, amount |-> RewardPerBlock,
                author |-> author]
    /\ old' = Snapshot
    /\ ops' = ops + 1
    /\ UNCHANGED <<RewardPerBlock, initial_reward_pool>>
    /\ LET reward_per_block == RewardPerBlock IN
       IF is_zero(reward_per_block) THEN Returns("ZeroConfigured", EarlyReturnWeight)
       ELSE LET pool == RewardPool IN
            IF PoolTooSmall(pool, reward_per_block) THEN Returns("InsufficientPool", EarlyReturnWeight)
            ELSE IF author = NoAuthor THEN Returns("NoProducer", HookWeight)
            ELSE \E new_pool \in UncheckedSub(pool, reward_per_block) :
                   IF new_pool.panic THEN Returns("Panic", 0)
                   ELSE \E updated_dist \in UncheckedAdd(TotalDistributed, reward_per_block) :
                          IF updated_dist.panic
                          THEN /\ RewardPool' = new_pool.val
                               /\ result' = "Panic"
                               /\ weight' = 0
                               /\ events' = <<>>
                               /\ UNCHANGED <<TotalDistributed, free_balance, toppedUp>>
                          ELSE /\ RewardPool' = new_pool.val
                               /\ TotalDistributed' = updated_dist.val
                               /\ free_balance' = deposit_creating(author, reward_per_block)
                               /\ events' = <<BlockRewardDistributed(author, reward_per_block)>>
                               /\ result' = "Distributed"
                               /\ weight' = HookWeight
                               /\ UNCHANGED toppedUp
    /\ skipped' = (skipped \/ result' = "InsufficientPool")

\* the host runs each handler to completion, as one step
TopUp ==
    /\ \E origin \in RuntimeOrigin, amount \in BalanceOf : top_up_pool(origin, amount)
    /\ UNCHANGED stepVars

Claim ==
    /\ \E origin \in RuntimeOrigin, amount \in BalanceOf : claim_reward(origin, amount)
    /\ UNCHANGED stepVars

Block ==
    /\ \E author \in OptionAccountId : on_initialize(author)
    /\ UNCHANGED stepVars

Next == TopUp \/ Claim \/ Block

Spec == Init /\ [][Next]_vars

\* The ledgers two handler runs after genesis: GenesisBuild::build with
\* initial_reward_pool = t, claim_reward(Signed Alice, t) when t > 0, then
\* top_up_pool(Root, p).  Every pair (RewardPool, TotalDistributed) = (p, t) of
\* the balance type is such a ledger.
InitRefilled ==
    /\ initial_reward_pool \in BalanceOf
    /\ RewardPerBlock \in RewardPerBlockChoices
    /\ RewardPool \in BalanceOf
    /\ TotalDistributed = initial_reward_pool
    /\ free_balance = [a \in AccountId |-> IF a = "Alice" THEN initial_reward_pool ELSE 0]
    /\ toppedUp = RewardPool
    /\ call = [op |-> "top_up_pool", origin |-> Root, amount |-> RewardPool, author |-> NoAuthor]
    /\ result = "Ok"
    /\ weight = 0
    /\ events = <<RewardPoolIncreased(RewardPool, RewardPool)>>
    /\ old = [RewardPool |-> 0, TotalDistributed |-> initial_reward_pool,
              free_balance |-> [a \in AccountId |-> IF a = "Alice" THEN initial_reward_pool ELSE 0]]
    /\ ops = 0
    /\ skipped = FALSE
    /\ pc = "idle"
    /\ pool_read = 0
    /\ half_written = FALSE

SpecRefilled == InitRefilled /\ [][Next]_vars

\* ------------------------------------------------------------------ statement by statement
\* The same handlers, one storage read or write per step.  The handlers
\* are plain synchronous functions: the host enters one only when none is in
\* flight.

\* handlers entered while another is in flight
CanStart_any == TRUE

\* the host enters a handler only between handlers
CanStart == pc = "idle"

\* a handler returns at one of its checks, before its first write
ReturnsEarly(r, w) ==
    /\ result' = r
    /\ weight' = w
    /\ pc' = "idle"
    /\ UNCHANGED pool_read

\* the handler in flight panics: the run ends where it is
Aborts ==
    /\ result' = "Panic"
    /\ pc' = "idle"
    /\ UNCHANGED <<RewardPool, TotalDistributed, free_balance, toppedUp, events,
                   weight, ops, half_written, pool_read>>

\* what a step inside a handler leaves alone
InFlightFrame == UNCHANGED <<RewardPerBlock, initial_reward_pool, call, old, skipped>>

\* top_up_pool, lines 214-220: origin check, read of RewardPool, checked_add
TopUpBegin(origin, amount) ==
    /\ Running /\ CanStart
    /\ call' = [op |-> "top_up_pool", origin |-> origin, amount |-> amount, author |-> NoAuthor]
    /\ old' = Snapshot
    /\ ops' = ops + 1
    /\ events' = <<>>
    /\ UNCHANGED <<RewardPerBlock, initial_reward_pool, skipped, RewardPool, TotalDistributed,
                   free_balance, toppedUp, half_written>>
    /\ IF ~try_origin(origin) THEN ReturnsEarly("BadOriginForTopUp", 0)
       ELSE IF ~checked_add(RewardPool, amount).some
            THEN ReturnsEarly("ArithmeticError::Overflow", 0)
       ELSE /\ pool_read' = RewardPool
            /\ pc' = "top_up_put_pool"
            /\ result' = "InFlight"
            /\ weight' = 0

\* top_up_pool, lines 223-228: write of RewardPool, event
TopUpPutPool ==
    /\ pc = "top_up_put_pool"
    /\ InFlightFrame
    /\ LET new_pool == checked_add(pool_read, call.amount).val IN
       /\ RewardPool' = new_pool
       /\ events' = <<RewardPoolIncreased(call.amount, new_pool)>>
    /\ toppedUp' = toppedUp + call.amount
    /\ result' = "Ok"
    /\ pc' = "idle"
    /\ UNCHANGED <<TotalDistributed, free_balance, weight, ops, half_written, pool_read>>

\* claim_reward, lines 239-246: origin and amount checks, read of RewardPool
ClaimBegin(origin, amount) ==
    /\ Running /\ CanStart
    /\ call' = [op |-> "claim_reward", origin |-> origin, amount |-> amount, author |-> NoAuthor]
    /\ old' = Snapshot
    /\ ops' = ops + 1
    /\ events' = <<>>
    /\ UNCHANGED <<RewardPerBlock, initial_reward_pool, skipped, RewardPool, TotalDistributed,
                   free_balance, toppedUp, half_written>>
    /\ IF ~ensure_signed(origin) THEN ReturnsEarly("BadOrigin", 0)
       ELSE IF is_zero(amount) THEN ReturnsEarly("InvalidClaimAmount", 0)
       ELSE IF ~HasFunds(RewardPool, amount) THEN ReturnsEarly("InsufficientRewardPool", 0)
       ELSE /\ pool_read' = RewardPool
            /\ pc' = "claim_put_pool"
            /\ result' = "InFlight"
            /\ weight' = 0

\* claim_reward, lines 249-250: write of RewardPool
ClaimPutPool ==
    /\ pc = "claim_put_pool"
    /\ InFlightFrame
    /\ \E new_pool \in UncheckedSub(pool_read, call.amount) :
          IF new_pool.panic THEN Aborts
          ELSE /\ RewardPool' = new_pool.val
               /\ half_written' = TRUE
               /\ pc' = "claim_put_total"
               /\ UNCHANGED <<TotalDistributed, free_balance, toppedUp, events, weight, ops,
                              result, pool_read>>

\* claim_reward, lines 253-255: read and write of TotalDistributed
ClaimPutTotal ==
    /\ pc = "claim_put_total"
    /\ InFlightFrame
    /\ \E new_total_dist \in UncheckedAdd(TotalDistributed, call.amount) :
          IF new_total_dist.panic THEN Aborts
          ELSE /\ TotalDistributed' = new_total_dist.val
               /\ half_written' = FALSE
               /\ pc' = "claim_deposit"
               /\ UNCHANGED <<RewardPool, free_balance, toppedUp, events, weight, ops,
                              result, pool_read>>

\* claim_reward, lines 258-262: deposit, event
ClaimDeposit ==
    /\ pc = "claim_deposit"
    /\ InFlightFrame
    /\ free_balance' = deposit_creating(call.origin, call.amount)
    /\ events' = <<RewardClaimed(call.origin, call.amount)>>
    /\ result' = "Ok"
    /\ pc' = "idle"
    /\ UNCHANGED <<RewardPool, TotalDistributed, toppedUp, weight, ops, half_written, pool_read>>

\* on_initialize, lines 156-176: reward and pool checks, read of RewardPool, author
HookBegin(author) ==
    /\ Running /\ CanStart
    /\ call' = [op |-> "on_initialize", origin |-> NoAccount, amount |-> RewardPerBlock,
                author |-> author]
    /\ old' = Snapshot
    /\ ops' = ops + 1
    /\ events' = <<>>
    /\ UNCHANGED <<RewardPerBlock, initial_reward_pool, RewardPool, TotalDistributed,
                   free_balance, toppedUp, half_written>>
    /\ IF is_zero(RewardPerBlock) THEN ReturnsEarly("ZeroConfigured", EarlyReturnWeight)
       ELSE IF PoolTooSmall(RewardPool, RewardPerBlock)
            THEN ReturnsEarly("InsufficientPool", EarlyReturnWeight)
       ELSE IF author = NoAuthor THEN ReturnsEarly("NoProducer", HookWeight)
       ELSE /\ pool_read' = RewardPool
            /\ pc' = "hook_put_pool"
            /\ result' = "InFlight"
            /\ weight' = 0
    /\ skipped' = (skipped \/ result' = "InsufficientPool")

\* on_initialize, lines 178-179: write of RewardPool
HookPutPool ==
    /\ pc = "hook_put_pool"
    /\ InFlightFrame
    /\ \E new_pool \in UncheckedSub(pool_read, call.amount) :
          IF new_pool.panic THEN Aborts
          ELSE /\ RewardPool' = new_pool.val
               /\ half_written' = TRUE
               /\ pc' = "hook_put_total"
               /\ UNCHANGED <<TotalDistributed, free_balance, toppedUp, events, weight, ops,
                              result, pool_read>>

\* on_initialize, lines 182-184: read and write of TotalDistributed
HookPutTotal ==
    /\ pc = "hook_put_total"
    /\ InFlightFrame
    /\ \E updated_dist \in UncheckedAdd(TotalDistributed, call.amount) :
          IF updated_dist.panic THEN Aborts
          ELSE /\ TotalDistributed' = updated_dist.val
               /\ half_written' = FALSE
               /\ pc' = "hook_deposit"
               /\ UNCHANGED <<RewardPool, free_balance, toppedUp, events, weight, ops,
                              result, pool_read>>

\* on_initialize, lines 187-195: deposit, event, Weight
HookDeposit ==
    /\ pc = "hook_deposit"
    /\ InFlightFrame
    /\ free_balance' = deposit_creating(call.author, call.amount)
    /\ events' = <<BlockRewardDistributed(call.author, call.amount)>>
    /\ result' = "Distributed"
    /\ weight' = HookWeight
    /\ pc' = "idle"
    /\ UNCHANGED <<RewardPool, TotalDistributed, toppedUp, ops, half_written, pool_read>>

TopUpStart == \E origin \in RuntimeOrigin, amount \in BalanceOf : TopUpBegin(origin, amount)
ClaimStart == \E origin \in RuntimeOrigin, amount \in BalanceOf : ClaimBegin(origin, amount)
HookStart == \E author \in OptionAccountId : HookBegin(author)

NextSteps ==
    \/ TopUpStart \/ TopUpPutPool
    \/ ClaimStart \/ ClaimPutPool \/ ClaimPutTotal \/ ClaimDeposit
    \/ HookStart \/ HookPutPool \/ HookPutTotal \/ HookDeposit

SpecSteps == Init /\ [][NextSteps]_vars

\* ------------------------------------------------------------------ properties
IsClaim == call.op = "claim_reward"
IsTopUp == call.op = "top_up_pool"
IsHook == call.op = "on_initialize"
Signed == call.origin \in AccountId
Privileged == call.origin \in RewardManagerOrigin

LedgerUnchanged ==
    /\ RewardPool = old.RewardPool
    /\ TotalDistributed = old.TotalDistributed

NothingHappened ==
    /\ LedgerUnchanged
    /\ free_balance = old.free_balance
    /\ events = <<>>

\* C1: total_distributed equals the sum of the amounts paid out through the
\* Currency by successful claims and distributing hooks.
C1_Conservation == TotalDistributed = TotalIssued

\* C2: total_distributed never decreases over a step, and both counters
\* are always >= 0.
C2_NonDecreasing ==
    /\ RewardPool >= 0
    /\ TotalDistributed >= 0
    /\ TotalDistributed >= old.TotalDistributed

\* C3: every addition and subtraction on the counters is checked: a handler
\* that completes has stored the true sum or difference, never a value
\* wrapped modulo 2^BalanceBits.
C3_CheckedArithmetic ==
    /\ (IsClaim /\ result = "Ok") =>
          /\ RewardPool = old.RewardPool - call.amount
          /\ TotalDistributed = old.TotalDistributed + call.amount
    /\ (IsHook /\ result = "Distributed") =>
          /\ RewardPool = old.RewardPool - call.amount
          /\ TotalDistributed = old.TotalDistributed + call.amount
    /\ (IsTopUp /\ result = "Ok") =>
          RewardPool = old.RewardPool + call.amount

\* C4: a top-up or claim that does not succeed, an arithmetic failure
\* included, leaves reward_pool and total_distributed as they were.
C4_NoPartialWrite ==
    ((IsTopUp \/ IsClaim) /\ result # "Ok") => LedgerUnchanged

\* C5: a claim by a signed caller of 0 < amount <= reward_pool succeeds,
\* moves amount from the pool to total_distributed, credits the caller alone
\* and deposits exactly one RewardClaimed(caller, amount).
C5_ClaimSucceeds ==
    (IsClaim /\ Signed /\ 0 < call.amount /\ call.amount <= old.RewardPool) =>
        /\ result = "Ok"
        /\ RewardPool = old.RewardPool - call.amount
        /\ TotalDistributed = old.TotalDistributed + call.amount
        /\ free_balance = [old.free_balance EXCEPT ![call.origin] = @ + call.amount]
        /\ events = <<RewardClaimed(call.origin, call.amount)>>

\* C6: a claim by a signed caller of more than reward_pool fails with
\* InsufficientRewardPool, changes neither counter nor any balance and
\* deposits no event.
C6_ClaimInsufficient ==
    (IsClaim /\ Signed /\ call.amount > old.RewardPool) =>
        (result = "InsufficientRewardPool" /\ NothingHappened)

C6_Witness ==
    /\ IsClaim /\ Signed
    /\ call.amount > old.RewardPool
    /\ old.RewardPool > 0
    /\ old.TotalDistributed > 0
    /\ result = "InsufficientRewardPool"

\* C7: a claim by a signed caller of amount 0 fails with InvalidClaimAmount and
\* changes nothing, whatever reward_pool is, reward_pool = 0 included.
C7_ClaimZero ==
    (IsClaim /\ Signed /\ call.amount = 0) =>
        (result = "InvalidClaimAmount" /\ NothingHappened)

C7_Witness ==
    /\ IsClaim /\ Signed
    /\ call.amount = 0
    /\ old.RewardPool = 0
    /\ old.TotalDistributed > 0
    /\ result = "InvalidClaimAmount"

\* C8: a top-up whose origin RewardManagerOrigin rejects fails with
\* BadOriginForTopUp for every amount, changes nothing and deposits no event.
C8_TopUpBadOrigin ==
    (IsTopUp /\ ~Privileged) =>
        (result = "BadOriginForTopUp" /\ NothingHappened)

C8_Witness ==
    /\ IsTopUp /\ ~Privileged
    /\ call.amount > 0
    /\ old.RewardPool + call.amount <= MaxBalance
    /\ old.TotalDistributed > 0
    /\ result = "BadOriginForTopUp"

\* C9: a privileged top-up whose sum fits (amount 0 included) succeeds, sets
\* reward_pool to the old pool plus amount, deposits exactly one
\* RewardPoolIncreased(amount, new_pool) and changes neither
\* total_distributed nor any balance.
C9_TopUpSucceeds ==
    (IsTopUp /\ Privileged /\ old.RewardPool + call.amount <= MaxBalance) =>
        /\ result = "Ok"
        /\ RewardPool = old.RewardPool + call.amount
        /\ events = <<[event |-> "RewardPoolIncreased", who |-> NoAccount,
                       amount |-> call.amount,
                       total |-> old.RewardPool + call.amount]>>
        /\ TotalDistributed = old.TotalDistributed
        /\ free_balance = old.free_balance

C9_Witness ==
    /\ IsTopUp /\ Privileged
    /\ call.amount > 0
    /\ old.RewardPool > 0
    /\ old.RewardPool + call.amount = MaxBalance
    /\ old.TotalDistributed > 0
    /\ result = "Ok"
    /\ Len(events) = 1

\* C10: a privileged top-up whose sum exceeds the maximum of the balance type
\* returns the arithmetic overflow error, stores nothing and deposits no
\* event.
C10_TopUpOverflow ==
    (IsTopUp /\ Privileged /\ old.RewardPool + call.amount > MaxBalance) =>
        (result = "ArithmeticError::Overflow" /\ NothingHappened)

C10_Witness ==
    /\ IsTopUp /\ Privileged
    /\ old.RewardPool + call.amount > MaxBalance
    /\ old.TotalDistributed > 0
    /\ result = "ArithmeticError::Overflow"

HasAuthor == call.author \in AccountId

\* C11: with per_block_amount > 0, reward_pool >= per_block_amount and an
\* author, the hook distributes: it moves per_block_amount from the pool to
\* total_distributed, credits the author alone and deposits exactly one
\* BlockRewardDistributed(author, per_block_amount).
C11_HookDistributes ==
    (IsHook /\ call.amount > 0 /\ old.RewardPool >= call.amount /\ HasAuthor) =>
        /\ result = "Distributed"
        /\ RewardPool = old.RewardPool - call.amount
        /\ TotalDistributed = old.TotalDistributed + call.amount
        /\ free_balance = [old.free_balance EXCEPT ![call.author] = @ + call.amount]
        /\ events = <<BlockRewardDistributed(call.author, call.amount)>>

\* C12: the hook skips in this order of precedence: a zero per_block_amount
\* (whatever the pool and author), else a pool below per_block_amount
\* (whatever the author), else no author; a skipped hook changes neither
\* counter nor any balance and deposits no event.
C12_HookSkips ==
    IsHook =>
        /\ (call.amount = 0) => (result = "ZeroConfigured" /\ NothingHappened)
        /\ (call.amount > 0 /\ old.RewardPool < call.amount) =>
              (result = "InsufficientPool" /\ NothingHappened)
        /\ (call.amount > 0 /\ old.RewardPool >= call.amount /\ ~HasAuthor) =>
              (result = "NoProducer" /\ NothingHappened)

C12_Witness ==
    /\ IsHook /\ ~HasAuthor
    /\ call.amount > 0
    /\ old.RewardPool = call.amount
    /\ old.TotalDistributed > 0
    /\ result = "NoProducer"

\* C13: the hook never fails or aborts: whatever the ledger, per_block_amount
\* and author, it ends skipped or distributed.
C13_HookNeverFails ==
    IsHook => result \in {"ZeroConfigured", "InsufficientPool", "NoProducer", "Distributed"}

\* C14: genesis runs once and before every handler: until the first handler
\* has run the ledger is (initial_reward_pool, 0), the build is never the
\* step of a running chain, and no handler run takes total_distributed back
\* to 0.
C14_GenesisOnce ==
    /\ (call.op = "build") =>
          (ops = 0 /\ RewardPool = initial_reward_pool /\ TotalDistributed = 0)
    /\ (call.op # "build" /\ old.TotalDistributed # 0) => TotalDistributed # 0

\* C15: a successful top-up or claim applied twice in a row has its effect
\* twice: the pool moves by twice the amount, and for a claim
\* total_distributed and the caller's credit grow by twice the amount.
C15_NotIdempotent ==
    [][ (call' = call /\ result = "Ok" /\ result' = "Ok") =>
          /\ IsTopUp => RewardPool' = old.RewardPool + 2 * call.amount
          /\ IsClaim =>
                /\ RewardPool' = old.RewardPool - 2 * call.amount
                /\ TotalDistributed' = old.TotalDistributed + 2 * call.amount
                /\ free_balance'[call.origin] =
                       old.free_balance[call.origin] + 2 * call.amount ]_vars

HookOutcomes == {"ZeroConfigured", "InsufficientPool", "NoProducer", "Distributed"}

\* C16 as stated: the hook reports the same pre-declared cost whichever way
\* it ends.
C16_SameWeight ==
    (IsHook /\ result \in HookOutcomes) => weight = HookWeight

\* C16 as amended: the hook reports 0 when it returns early for a zero
\* per_block_amount or an insufficient pool, and 10000 when it ends without
\* an author or after distributing.
C16_WeightByBranch ==
    IsHook =>
        /\ (result \in {"ZeroConfigured", "InsufficientPool"}) => weight = 0
        /\ (result \in {"NoProducer", "Distributed"}) => weight = 10000

C16_Witness ==
    /\ IsHook /\ HasAuthor
    /\ result = "InsufficientPool"
    /\ old.RewardPool > 0
    /\ weight = 0

\* C18: a skipped block reward is not latched: after hooks skipped for an
\* insufficient pool, a hook that finds reward_pool >= per_block_amount > 0
\* and an author distributes, and pays exactly one per_block_amount.
C18_NoLatch ==
    (skipped /\ IsHook /\ call.amount > 0 /\ old.RewardPool >= call.amount /\ HasAuthor) =>
        /\ result = "Distributed"
        /\ RewardPool = old.RewardPool - call.amount
        /\ free_balance = [old.free_balance EXCEPT ![call.author] = @ + call.amount]

\* no addition has passed the maximum of the balance type so far
NoOverflowSoFar == result # "Panic" /\ TotalIssued <= MaxBalance

\* C19: as long as no counter has passed the maximum of the balance type,
\* reward_pool + total_distributed = initial_pool + the sum of the
\* successful top-ups.
C19_AccountingIdentity ==
    NoOverflowSoFar =>
        RewardPool + TotalDistributed = initial_reward_pool + toppedUp

C19_Witness ==
    /\ NoOverflowSoFar
    /\ toppedUp > 0
    /\ TotalDistributed > 0
    /\ RewardPool > 0
    /\ RewardPool + TotalDistributed > MaxBalance
    /\ (IsClaim \/ IsHook)

\* C20: reward_pool increases only in a top-up whose origin
\* RewardManagerOrigin accepted; a claim or hook never increases it; a claim
\* whose origin is not signed fails before any check of the amount, changes
\* neither counter and credits nobody.
C20_Authorization ==
    /\ (RewardPool > old.RewardPool) => (IsTopUp /\ Privileged /\ result = "Ok")
    /\ (IsClaim /\ ~Signed) => (result = "BadOrigin" /\ NothingHappened)

C20_Witness ==
    /\ IsClaim /\ ~Signed
    /\ call.amount = 0
    /\ old.RewardPool > 0
    /\ old.TotalDistributed > 0
    /\ result = "BadOrigin"

\* C17: each handler takes effect as one indivisible step: run statement by
\* statement and one at a time, a handler never begins in, or reads, a ledger
\* whose RewardPool is written and whose TotalDistributed is not, and the pool
\* it validated is the pool it writes from.
C17_Atomic ==
    /\ (pc \in {"top_up_put_pool", "claim_put_pool", "hook_put_pool"}) =>
          (~half_written /\ pool_read = RewardPool /\ old.RewardPool = RewardPool)
    /\ (pc = "idle" /\ result # "Panic") => ~half_written

C17_Witness ==
    /\ pc = "claim_put_pool"
    /\ call.op = "claim_reward"
    /\ old.TotalDistributed > 0
    /\ result = "InFlight"
    /\ ops > 1

====
